---- MODULE Spec2Model ----
(***************************************************************************)
(* StyleVerse front end: the axios client of services/api.ts (its request  *)
(* and response interceptors, the service facades, the session kept in     *)
(* localStorage) and the handlers of pages/Auth.tsx.                       *)
(*                                                                         *)
(* One step of the model is one event-loop step of the page: the           *)
(* synchronous prefix of a call up to its first await (the request leaves),*)
(* or the arrival of a reply together with the continuations it resumes    *)
(* (response interceptor, facade, page handler).                           *)
(***************************************************************************)
EXTENDS Integers, Sequences, FiniteSets, TLC

VARIABLES
    storage,    \* localStorage: a function from the keys present to strings
    href,       \* window.location.href
    inflight,   \* requests sent and not yet answered
    issued,     \* number of requests sent so far
    last,       \* the call that settled most recently and how it settled
    granted,    \* session payload authService received most recently
    loading,    \* Auth page: useState(false)
    user,       \* Auth page: useState()
    toasts,     \* Auth page: notifications shown, oldest first
    navigated,  \* Auth page: routes passed to navigate()
    filters     \* the filter object handed to getRequests / getProposals

vars == <<storage, href, inflight, issued, last, granted,
          loading, user, toasts, navigated, filters>>

pageVars == <<loading, user, toasts, navigated>>

----------------------------------------------------------------------------
(* Bounds *)

MaxCalls == 2

MaxValueLen == 2

----------------------------------------------------------------------------
(* Values *)

Unauthorized == 401

\* a status other than 401 that the backend may answer with
OtherStatuses == {500}

Profile(i) == [id |-> i]

\* what the backend answers to a successful login or registration
Sessions == {[token |-> "t1", user |-> Profile(1)], [token |-> "t2", user |-> Profile(2)]}

JSNull == [null |-> TRUE]

JSUndefined == [undefined |-> TRUE]

JSTrue == [bool |-> TRUE]

NoGrant == [none |-> TRUE]

\* getItem's answer for a key that is absent
NullItem == "<null>"

\* JSON.stringify of a profile object {id: i}
JSONStringify_NoQuotes(u) == "{id:" \o ToString(u.id) \o "}"

JSONStringify(u) == "{\"id\":" \o ToString(u.id) \o "}"

----------------------------------------------------------------------------
(* localStorage *)

EmptyStorage == [k \in {} |-> ""]

GetItem(store, key) == IF key \in DOMAIN store THEN store[key] ELSE NullItem

SetItem(store, key, value) ==
    [k \in DOMAIN store \cup {key} |-> IF k = key THEN value ELSE store[k]]

RemoveItem(store, key) == [k \in DOMAIN store \ {key} |-> store[k]]

\* JavaScript truthiness of what getItem returns: null and "" are falsy
TruthyItem(s) == s # NullItem /\ s # ""

ClearSession_TokenOnly(store) == RemoveItem(store, "token")

\* localStorage.removeItem("token"); localStorage.removeItem("user")
ClearSession(store) == RemoveItem(RemoveItem(store, "token"), "user")

StoreSession_Unserialized(store, token, profile) ==
    SetItem(SetItem(store, "token", token), "user", JSONStringify_NoQuotes(profile))

\* localStorage.setItem("token", token); localStorage.setItem("user", JSON.stringify(user))
StoreSession(store, token, profile) ==
    SetItem(SetItem(store, "token", token), "user", JSONStringify(profile))

----------------------------------------------------------------------------
(* Headers and the shared client *)

NoHeaders == [h \in {} |-> ""]

SetHeader(headers, name, value) ==
    [h \in DOMAIN headers \cup {name} |-> IF h = name THEN value ELSE headers[h]]

\* axios.create({headers: {"Content-Type": "application/json"}})
ApiDefaults == SetHeader(NoHeaders, "Content-Type", "application/json")

\* per-call headers win over the instance's defaults
MergeHeaders(defaults, own) ==
    [h \in DOMAIN defaults \cup DOMAIN own |-> IF h \in DOMAIN own THEN own[h] ELSE defaults[h]]

Bearer(token) == "Bearer " \o token

RequestInterceptor_Never(store, headers) == headers

RequestInterceptor(store, headers) ==
    IF TruthyItem(GetItem(store, "token"))
    THEN SetHeader(headers, "Authorization", Bearer(GetItem(store, "token")))
    ELSE headers

\* the headers of a call made through the shared client
ApiHeaders(store, own) == RequestInterceptor(store, MergeHeaders(ApiDefaults, own))

\* createRequest's FormData branch: headers: {...(token ? {Authorization} : {})}
FormDataHeaders(store) ==
    IF TruthyItem(GetItem(store, "token"))
    THEN SetHeader(NoHeaders, "Authorization", Bearer(GetItem(store, "token")))
    ELSE NoHeaders

\* uploadImage: {headers: {"Content-Type": "multipart/form-data"}}
UploadImageHeaders == SetHeader(NoHeaders, "Content-Type", "multipart/form-data")

\* handleRegister's fetch: headers: {"Content-Type": "application/json"}
FetchHeaders == SetHeader(NoHeaders, "Content-Type", "application/json")

----------------------------------------------------------------------------
(* Replies of the backend and what the transport makes of them *)

OkReply(data) == [kind |-> "ok", status |-> 200, data |-> data]

StatusReply(status, body) == [kind |-> "status", status |-> status, data |-> body]

NetworkFailure == [kind |-> "network", status |-> 0, data |-> JSUndefined]

\* error bodies: with a message, and without one
ErrorBodies == {[message |-> "Email already registered"], [message |-> ""]}

\* the body of a successful answer, per endpoint
SuccessData(op) ==
    CASE op = "login" -> {[data |-> [token |-> s.token, userData |-> s.user]] : s \in Sessions}
      [] op \in {"register", "handleRegister"} -> {[token |-> s.token, user |-> s.user] : s \in Sessions}
      [] op = "getCurrentUser" -> {s.user : s \in Sessions}
      [] OTHER -> {[payload |-> "json"]}

\* axios reads no error body; handleRegister's fetch reads errorData.message
Failures(r) ==
    {NetworkFailure}
    \cup {StatusReply(s, b) : s \in {Unauthorized} \cup OtherStatuses,
                              b \in IF r.via = "fetch" THEN ErrorBodies ELSE {[message |-> ""]}}

Replies(r) == {OkReply(d) : d \in SuccessData(r.op)} \cup Failures(r)

\* the AxiosError a failed call rejects with (an Error instance)
AxiosError(p) ==
    [isError |-> TRUE,
     hasResponse |-> p.kind = "status",
     status |-> p.status,
     message |-> IF p.kind = "status"
                 THEN "Request failed with status code " \o ToString(p.status)
                 ELSE "Network Error"]

Fulfilled(v) == [settle |-> "resolved", value |-> v]

Rejected(e) == [settle |-> "rejected", value |-> e]

\* w is the window: [storage, href]
ResponseErrorHandler_AnyStatus(w, error) ==
    IF error.hasResponse
    THEN [storage |-> ClearSession(w.storage), href |-> "/auth"]
    ELSE w

\* api.interceptors.response.use(_, (error) => ...): the side effect; the
\* rejection with the same error is in ViaApi
ResponseErrorHandler(w, error) ==
    IF error.hasResponse /\ error.status = Unauthorized
    THEN [storage |-> ClearSession(w.storage), href |-> "/auth"]
    ELSE w

\* a call through the shared client: both response interceptors run
ViaApi(w, p) ==
    IF p.kind = "ok"
    THEN [w |-> w, out |-> Fulfilled([data |-> p.data])]
    ELSE [w |-> ResponseErrorHandler(w, AxiosError(p)), out |-> Rejected(AxiosError(p))]

\* a call through the global axios: no interceptor is installed on it
ViaAxios(w, p) ==
    IF p.kind = "ok"
    THEN [w |-> w, out |-> Fulfilled([data |-> p.data])]
    ELSE [w |-> w, out |-> Rejected(AxiosError(p))]

\* fetch resolves for every HTTP answer and rejects when there is none
ViaFetch(w, p) ==
    IF p.kind = "network"
    THEN [w |-> w, out |-> Rejected([isError |-> TRUE, hasResponse |-> FALSE, status |-> 0,
                                     message |-> "Failed to fetch"])]
    ELSE [w |-> w, out |-> Fulfilled([ok |-> p.kind = "ok", data |-> p.data])]

----------------------------------------------------------------------------
(* The facades' continuations after the await; t is [w, out] *)

ReturnData_Swallow(t) ==
    IF t.out.settle = "rejected"
    THEN [t EXCEPT !.out = Fulfilled(JSNull)]
    ELSE [t EXCEPT !.out = Fulfilled(t.out.value.data)]

\* const response = await api.x(...); return response.data
ReturnData(t) ==
    IF t.out.settle = "rejected" THEN t ELSE [t EXCEPT !.out = Fulfilled(t.out.value.data)]

\* authService.login: const { token, userData } = response.data.data
LoginThen(t) ==
    IF t.out.settle = "rejected"
    THEN t
    ELSE LET d == t.out.value.data.data
         IN  [w |-> [t.w EXCEPT !.storage = StoreSession(@, d.token, d.userData)],
              out |-> Fulfilled(d.userData)]

\* authService.register: const { token, user } = response.data
RegisterThen(t) ==
    IF t.out.settle = "rejected"
    THEN t
    ELSE LET d == t.out.value.data
         IN  [w |-> [t.w EXCEPT !.storage = StoreSession(@, d.token, d.user)],
              out |-> Fulfilled(d.user)]

\* authService.getCurrentUser after the await: try { return response.data }
\* catch { remove token and user; return null }
GetCurrentUserThen(t) ==
    IF t.out.settle = "rejected"
    THEN [w |-> [t.w EXCEPT !.storage = ClearSession(@)], out |-> Fulfilled(JSNull)]
    ELSE [t EXCEPT !.out = Fulfilled(t.out.value.data)]

\* createRequest, FormData branch: try { return response.data } catch { throw error }
CreateRequestFormThen(t) ==
    IF t.out.settle = "rejected" THEN t ELSE [t EXCEPT !.out = Fulfilled(t.out.value.data)]

----------------------------------------------------------------------------
(* The Auth page; pg is [loading, user, toasts, navigated] *)

Toast(title, description) == [title |-> title, description |-> description]

\* error instanceof Error ? error.message : fallback
MessageOr(error, fallback) == IF error.isError THEN error.message ELSE fallback

\* the handler's own promise: the catch block takes every rejection
Handled(pg) == [page |-> pg, settle |-> "resolved"]

HandleLoginThen_NavigateAlways(pg, out) ==
    IF out.settle = "resolved"
    THEN Handled([pg EXCEPT !.user = out.value,
                    !.toasts = Append(@, Toast("Login successful", "Welcome back to StyleVerse.")),
                    !.navigated = Append(@, "/")])
    ELSE Handled([pg EXCEPT !.toasts = Append(@, Toast("Login failed", MessageOr(out.value, "Invalid credentials"))),
                    !.navigated = Append(@, "/")])

\* handleLogin after await authService.login(...): the try's rest, or the catch
HandleLoginThen(pg, out) ==
    IF out.settle = "resolved"
    THEN Handled([pg EXCEPT !.user = out.value,
                    !.toasts = Append(@, Toast("Login successful", "Welcome back to StyleVerse.")),
                    !.navigated = Append(@, "/")])
    ELSE Handled([pg EXCEPT !.toasts = Append(@, Toast("Login failed", MessageOr(out.value, "Invalid credentials")))])

\* handleRegister after await fetch(...): !response.ok throws
\* Error(errorData.message || "Registration failed"); finally setLoading(false)
HandleRegisterThen(pg, out) ==
    LET thrown ==
            IF out.settle = "rejected" THEN out.value
            ELSE [isError |-> TRUE, hasResponse |-> TRUE, status |-> 0,
                  message |-> IF out.value.data.message # ""
                              THEN out.value.data.message ELSE "Registration failed"]
    IN  IF out.settle = "resolved" /\ out.value.ok
        THEN Handled([pg EXCEPT !.toasts = Append(@, Toast("Registration successful", "Welcome to StyleVerse.")),
                        !.loading = FALSE])
        ELSE Handled([pg EXCEPT !.toasts = Append(@, Toast("Registration failed",
                                                   MessageOr(thrown, "Could not create account"))),
                        !.loading = FALSE])

----------------------------------------------------------------------------
(* Query strings: new URLSearchParams(), append, and `${queryParams}` *)

Alphabet == {"a", " ", "&"}

FilterKeys == {<<"q">>, <<"t", "a", "g">>}

RECURSIVE StringsUpTo(_)
StringsUpTo(n) ==
    IF n = 0 THEN {<< >>}
    ELSE StringsUpTo(n - 1) \cup {Append(s, c) : s \in {x \in StringsUpTo(n - 1) : Len(x) = n - 1}, c \in Alphabet}

JSString(s) == [t |-> "string", s |-> s]

JSNumber(n) == [t |-> "number", n |-> n]

JSBoolean(b) == [t |-> "boolean", b |-> b]

FilterValues ==
    {JSString(s) : s \in StringsUpTo(MaxValueLen)}
    \cup {JSNumber(0), JSNumber(1), JSBoolean(FALSE), JSBoolean(TRUE), [t |-> "undefined"]}

\* Object.entries of an object with at most two own keys, in insertion order
FilterEntries == {[key |-> k, value |-> v] : k \in FilterKeys, v \in FilterValues}

FilterObjects ==
    {<< >>}
    \cup {<<e>> : e \in FilterEntries}
    \cup {f \in {<<e1, e2>> : e1 \in FilterEntries, e2 \in FilterEntries} : f[1].key # f[2].key}

\* if (value)
Truthy(v) ==
    CASE v.t = "string" -> v.s # << >>
      [] v.t = "number" -> v.n # 0
      [] v.t = "boolean" -> v.b
      [] OTHER -> FALSE

\* the string a value is converted to when appended
ToStringJS(v) ==
    CASE v.t = "string" -> v.s
      [] v.t = "number" -> <<ToString(v.n)>>
      [] v.t = "boolean" -> IF v.b THEN <<"t", "r", "u", "e">> ELSE <<"f", "a", "l", "s", "e">>
      [] OTHER -> <<"u", "n", "d", "e", "f", "i", "n", "e", "d">>

EncodeChar_Raw(c) == <<c>>

\* application/x-www-form-urlencoded byte serializer
EncodeChar(c) ==
    CASE c = " " -> <<"+">>
      [] c = "&" -> <<"%", "2", "6">>
      [] c = "=" -> <<"%", "3", "D">>
      [] c = "+" -> <<"%", "2", "B">>
      [] c = "%" -> <<"%", "2", "5">>
      [] OTHER -> <<c>>

RECURSIVE FormEncode(_)
FormEncode(s) == IF s = << >> THEN << >> ELSE EncodeChar(Head(s)) \o FormEncode(Tail(s))

\* URLSearchParams.toString(): name=value pairs joined by "&"
RECURSIVE Serialize(_)
Serialize(params) ==
    IF params = << >> THEN << >>
    ELSE FormEncode(params[1].name) \o <<"=">> \o FormEncode(params[1].value)
         \o (IF Len(params) > 1 THEN <<"&">> ELSE << >>) \o Serialize(Tail(params))

\* Object.entries(filters).forEach(([key, value]) => { if (value) queryParams.append(key, value) })
RECURSIVE AppendTruthy(_, _)
AppendTruthy(params, entries) ==
    IF entries = << >> THEN params
    ELSE AppendTruthy(IF Truthy(entries[1].value)
                      THEN Append(params, [name |-> entries[1].key, value |-> ToStringJS(entries[1].value)])
                      ELSE params,
                      Tail(entries))

BuildQuery(f) == Serialize(AppendTruthy(<< >>, f))

NoQuery == << >>

----------------------------------------------------------------------------
(* The facades whose whole body is                                         *)
(*   const response = await api.<method>(...); return response.data        *)
(* by service. A request in flight carries its service's name.             *)

PassThrough ==
    [getUsers |-> "users", getUserById |-> "users", updateUser |-> "users", deleteUser |-> "users",
     getRequests |-> "requests", getRequestById |-> "requests", createRequest |-> "requests",
     updateRequest |-> "requests", deleteRequest |-> "requests",
     getImagesByRequestId |-> "images", addImage |-> "images", deleteImage |-> "images",
     getProposals |-> "proposals", createProposal |-> "proposals", updateProposal |-> "proposals",
     getMessages |-> "chat", sendMessage |-> "chat"]

Services == {PassThrough[f] : f \in DOMAIN PassThrough}

\* the operations that take a filter object
ListOps == {"getRequests", "getProposals"}

NoReply == [kind |-> "none", status |-> 0, data |-> JSUndefined]

NoCall == [op |-> "none", caller |-> "none", via |-> "none", reply |-> NoReply,
           settle |-> "none", value |-> JSUndefined, handler |-> "none"]

Window == [storage |-> storage, href |-> href]

Page == [loading |-> loading, user |-> user, toasts |-> toasts, navigated |-> navigated]

\* the request leaves: the call is suspended at its await
Send(op, caller, via, headers, query) ==
    /\ issued < MaxCalls
    /\ issued' = issued + 1
    /\ inflight' = inflight \cup {[id |-> issued + 1, op |-> op, caller |-> caller, via |-> via,
                                   headers |-> headers, query |-> query]}

\* a call that returns without sending anything
Immediate(op, out) ==
    /\ issued' = issued
    /\ last' = [op |-> op, caller |-> "direct", via |-> "none", reply |-> NoReply,
                settle |-> out.settle, value |-> out.value, handler |-> "none"]

\* the reply p to request r has been handled, leaving the window as t.w and
\* the facade's promise settled as t.out
Settled(r, p, t, handler) ==
    /\ inflight' = inflight \ {r}
    /\ storage' = t.w.storage
    /\ href' = t.w.href
    /\ last' = [op |-> r.op, caller |-> r.caller, via |-> r.via, reply |-> p,
                settle |-> t.out.settle, value |-> t.out.value, handler |-> handler]

SetPage(pg) ==
    /\ loading' = pg.loading
    /\ user' = pg.user
    /\ toasts' = pg.toasts
    /\ navigated' = pg.navigated

----------------------------------------------------------------------------
(* authService *)

Login ==
    /\ Send("login", "direct", "api", ApiHeaders(storage, NoHeaders), NoQuery)
    /\ UNCHANGED <<storage, href, last, granted, pageVars, filters>>

LoginSettles ==
    \E r \in inflight : \E p \in Replies(r) :
        /\ r.op = "login" /\ r.caller = "direct"
        /\ Settled(r, p, LoginThen(ViaApi(Window, p)), "none")
        /\ granted' = IF p.kind = "ok" THEN [token |-> p.data.data.token, user |-> p.data.data.userData]
                      ELSE granted
        /\ UNCHANGED <<issued, pageVars, filters>>

Register ==
    /\ Send("register", "direct", "api", ApiHeaders(storage, NoHeaders), NoQuery)
    /\ UNCHANGED <<storage, href, last, granted, pageVars, filters>>

RegisterSettles ==
    \E r \in inflight : \E p \in Replies(r) :
        /\ r.op = "register"
        /\ Settled(r, p, RegisterThen(ViaApi(Window, p)), "none")
        /\ granted' = IF p.kind = "ok" THEN [token |-> p.data.token, user |-> p.data.user] ELSE granted
        /\ UNCHANGED <<issued, pageVars, filters>>

Logout ==
    /\ Immediate("logout", Fulfilled(JSTrue))
    /\ storage' = ClearSession(storage)
    /\ UNCHANGED <<href, inflight, granted, pageVars, filters>>

GetCurrentUser ==
    \/ /\ ~TruthyItem(GetItem(storage, "token"))
       /\ Immediate("getCurrentUser", Fulfilled(JSNull))
       /\ UNCHANGED <<storage, href, inflight, granted, pageVars, filters>>
    \/ /\ TruthyItem(GetItem(storage, "token"))
       /\ Send("getCurrentUser", "direct", "api", ApiHeaders(storage, NoHeaders), NoQuery)
       /\ UNCHANGED <<storage, href, last, granted, pageVars, filters>>

GetCurrentUserSettles ==
    \E r \in inflight : \E p \in Replies(r) :
        /\ r.op = "getCurrentUser"
        /\ Settled(r, p, GetCurrentUserThen(ViaApi(Window, p)), "none")
        /\ UNCHANGED <<issued, granted, pageVars, filters>>

----------------------------------------------------------------------------
(* userService, requestService, requestImageService, proposalService,      *)
(* chatService                                                             *)

Call(f) ==
    /\ Send(PassThrough[f], "direct", "api", ApiHeaders(storage, NoHeaders),
            IF f \in ListOps THEN BuildQuery(filters) ELSE NoQuery)
    /\ UNCHANGED <<storage, href, last, granted, pageVars, filters>>

PassThroughCall == \E f \in DOMAIN PassThrough : Call(f)

PassThroughSettles ==
    \E r \in inflight : \E p \in Replies(r) :
        /\ r.op \in Services
        /\ Settled(r, p, ReturnData(ViaApi(Window, p)), "none")
        /\ UNCHANGED <<issued, granted, pageVars, filters>>

\* requestService.createRequest with requestData instanceof FormData
CreateRequestFormData ==
    /\ Send("createRequest", "direct", "axios", FormDataHeaders(storage), NoQuery)
    /\ UNCHANGED <<storage, href, last, granted, pageVars, filters>>

CreateRequestFormDataSettles ==
    \E r \in inflight : \E p \in Replies(r) :
        /\ r.op = "createRequest"
        /\ Settled(r, p, CreateRequestFormThen(ViaAxios(Window, p)), "none")
        /\ UNCHANGED <<issued, granted, pageVars, filters>>

UploadImage ==
    /\ Send("uploadImage", "direct", "api", ApiHeaders(storage, UploadImageHeaders), NoQuery)
    /\ UNCHANGED <<storage, href, last, granted, pageVars, filters>>

UploadImageSettles ==
    \E r \in inflight : \E p \in Replies(r) :
        /\ r.op = "uploadImage"
        /\ Settled(r, p, ReturnData(ViaApi(Window, p)), "none")
        /\ UNCHANGED <<issued, granted, pageVars, filters>>

----------------------------------------------------------------------------
(* pages/Auth.tsx *)

HandleLogin ==
    /\ Send("login", "handleLogin", "api", ApiHeaders(storage, NoHeaders), NoQuery)
    /\ loading' = TRUE
    /\ UNCHANGED <<storage, href, last, granted, user, toasts, navigated, filters>>

HandleLoginSettles ==
    \E r \in inflight : \E p \in Replies(r) :
        /\ r.op = "login" /\ r.caller = "handleLogin"
        /\ LET t == LoginThen(ViaApi(Window, p))
               h == HandleLoginThen(Page, t.out)
           IN  /\ Settled(r, p, t, h.settle)
               /\ SetPage(h.page)
        /\ granted' = IF p.kind = "ok" THEN [token |-> p.data.data.token, user |-> p.data.data.userData]
                      ELSE granted
        /\ UNCHANGED <<issued, filters>>

HandleRegister ==
    /\ Send("handleRegister", "handleRegister", "fetch", FetchHeaders, NoQuery)
    /\ loading' = TRUE
    /\ UNCHANGED <<storage, href, last, granted, user, toasts, navigated, filters>>

HandleRegisterSettles ==
    \E r \in inflight : \E p \in Replies(r) :
        /\ r.op = "handleRegister"
        /\ LET t == ViaFetch(Window, p)
               h == HandleRegisterThen(Page, t.out)
           IN  /\ Settled(r, p, [t EXCEPT !.out.value = JSUndefined], h.settle)
               /\ SetPage(h.page)
        /\ UNCHANGED <<issued, granted, filters>>

----------------------------------------------------------------------------
(* Specifications *)

\* the page as loaded: localStorage empty, or holding a session kept from an
\* earlier visit
InitWith(f) ==
    /\ \E s \in Sessions \cup {NoGrant} :
         /\ granted = s
         /\ storage = IF s = NoGrant THEN EmptyStorage ELSE StoreSession(EmptyStorage, s.token, s.user)
    /\ href = "/"
    /\ inflight = {}
    /\ issued = 0
    /\ last = NoCall
    /\ loading = FALSE
    /\ user = JSUndefined
    /\ toasts = << >>
    /\ navigated = << >>
    /\ filters = f

Init == InitWith(<< >>)

Next ==
    \/ Login \/ LoginSettles
    \/ Register \/ RegisterSettles
    \/ Logout
    \/ GetCurrentUser \/ GetCurrentUserSettles
    \/ PassThroughCall \/ PassThroughSettles
    \/ CreateRequestFormData \/ CreateRequestFormDataSettles
    \/ UploadImage \/ UploadImageSettles
    \/ HandleLogin \/ HandleLoginSettles
    \/ HandleRegister \/ HandleRegisterSettles

Spec == Init /\ [][Next]_vars

\* the two list operations, over every filter object
InitQuery == \E f \in FilterObjects : InitWith(f)

GetRequests == Call("getRequests")

GetProposals == Call("getProposals")

NextQuery == GetRequests \/ GetProposals

SpecQuery == InitQuery /\ [][NextQuery]_vars

----------------------------------------------------------------------------
(* Properties *)

\* the requests a step sends, and the requests a step settles
Sent == inflight' \ inflight

Answered == inflight \ inflight'

Failed(c) == c.reply.kind \in {"status", "network"}

HasSession == DOMAIN storage = {"token", "user"}

\* the session a successful login / registration reply carries
GrantOf(c) ==
    IF c.op = "login"
    THEN [token |-> c.reply.data.data.token, user |-> c.reply.data.data.userData]
    ELSE [token |-> c.reply.data.token, user |-> c.reply.data.user]

\* the JSON text of the profiles the backend hands out
ProfileText(u) == IF u.id = 1 THEN "{\"id\":1}" ELSE "{\"id\":2}"

\* C1: whichever facade operation made the call, once its HTTP call has been
\* answered with status 401 the storage entries token and user are both
\* absent and window.location.href is "/auth".
C1_Every401ClearsSessionAndRedirects ==
    (last.op \notin {"none", "handleRegister"} /\ last.reply.status = Unauthorized)
        => (storage = EmptyStorage /\ href = "/auth")

\* C2: a request sent through the shared client carries Authorization:
\* Bearer t exactly when storage holds token t at the moment it is sent, and
\* carries no Authorization header when no token is stored.
C2_BearerIffTokenStored ==
    [][\A r \in Sent : r.via = "api" =>
          IF "token" \in DOMAIN storage
          THEN "Authorization" \in DOMAIN r.headers /\ r.headers["Authorization"] = "Bearer " \o storage["token"]
          ELSE "Authorization" \notin DOMAIN r.headers]_vars

C2_Witness ==
    /\ last.op = "logout"
    /\ \E r \in inflight : r.via = "api" /\ r.id = 1 /\ r.headers = ApiDefaults @@ ("Authorization" :> "Bearer t1")
    /\ \E r \in inflight : r.via = "api" /\ r.id = 2 /\ "Authorization" \notin DOMAIN r.headers

\* C3 as stated: after a successful authService.login, authService.register
\* or handleRegister, storage holds the token and the serialized user of
\* that reply, and the facade returned that user.
C3_EverySuccessStoresSession ==
    (last.op \in {"login", "register", "handleRegister"} /\ last.reply.kind = "ok")
        => /\ HasSession
           /\ storage["token"] = GrantOf(last).token
           /\ storage["user"] = ProfileText(GrantOf(last).user)
           /\ last.op # "handleRegister" => (last.settle = "resolved" /\ last.value = GrantOf(last).user)

\* C3 amended: after a successful authService.login or authService.register
\* (handleRegister left out), storage holds the token and the serialized
\* user of that reply, and the facade returned that user.
C3_LoginRegisterStoreSession ==
    (last.op \in {"login", "register"} /\ last.reply.kind = "ok")
        => /\ HasSession
           /\ storage["token"] = GrantOf(last).token
           /\ storage["user"] = ProfileText(GrantOf(last).user)
           /\ last.settle = "resolved"
           /\ last.value = GrantOf(last).user

C3_Witness ==
    /\ last.op = "register" /\ last.reply.kind = "ok"
    /\ storage["token"] = "t2"
    /\ issued = 2 /\ inflight = {}

\* the error a failed call's promise should reject with
TransportError(p) ==
    [isError |-> TRUE, hasResponse |-> p.kind = "status", status |-> p.status,
     message |-> IF p.kind = "network" THEN "Network Error"
                 ELSE IF p.status = Unauthorized THEN "Request failed with status code 401"
                 ELSE "Request failed with status code 500"]

C6_HandleLoginOutcome ==
    [][\A r \in Answered : r.caller = "handleLogin" =>
          /\ last'.handler = "resolved"
          /\ IF last'.reply.kind = "ok"
             THEN /\ user' = GrantOf(last').user
                  /\ Len(toasts') = Len(toasts) + 1
                  /\ toasts'[Len(toasts')].title = "Login successful"
                  /\ navigated' = Append(navigated, "/")
             ELSE /\ toasts' = Append(toasts, [title |-> "Login failed",
                                               description |-> TransportError(last'.reply).message])
                  /\ navigated' = navigated
                  /\ user' = user]_vars

C6_Witness ==
    /\ Len(toasts) = 2
    /\ toasts[1].title = "Login successful"
    /\ toasts[2].title = "Login failed"
    /\ navigated = <<"/">>

UploadOps == {"createRequest", "uploadImage"}

\* C7: a request sent by either upload operation (createRequest with a
\* FormData payload, uploadImage) carries no Content-Type header, neither the
\* client's default nor one set by the caller, and carries Authorization:
\* Bearer t when storage holds token t at the moment it is sent.
C7_UploadsCarryNoContentType ==
    [][\A r \in Sent : r.op \in UploadOps =>
          /\ "Content-Type" \notin DOMAIN r.headers
          /\ "token" \in DOMAIN storage =>
                ("Authorization" \in DOMAIN r.headers
                 /\ r.headers["Authorization"] = "Bearer " \o storage["token"])]_vars

\* C9: when the 401 handler discards a stored session, the stored token is
\* the one the rejected request was sent with.
C9_401DiscardsOnlyTheSessionItAnswers ==
    [][\A r \in Answered :
          (r.via = "api" /\ last'.reply.status = Unauthorized /\ "token" \in DOMAIN storage)
              => /\ "Authorization" \in DOMAIN r.headers
                 /\ r.headers["Authorization"] = "Bearer " \o storage["token"]]_vars

\* C10: token and user are both present or both absent in storage, and when
\* present they are the token and the serialized user of one reply: that of
\* the login / registration that completed most recently (or the session the
\* page was loaded with).
C10_OneWholeSession ==
    /\ DOMAIN storage \in {{}, {"token", "user"}}
    /\ HasSession => /\ granted # NoGrant
                     /\ storage["token"] = granted.token
                     /\ storage["user"] = ProfileText(granted.user)

C10_Witness ==
    /\ HasSession /\ storage["token"] = "t2"
    /\ last.op = "login" /\ last.reply.kind = "ok"
    /\ issued = 2 /\ inflight = {}

----------------------------------------------------------------------------
(* Reading a query string back, as the receiving side does *)

\* the pieces of s between occurrences of c
RECURSIVE SplitOn(_, _, _)
SplitOn(s, c, piece) ==
    IF s = << >> THEN <<piece>>
    ELSE IF Head(s) = c THEN <<piece>> \o SplitOn(Tail(s), c, << >>)
    ELSE SplitOn(Tail(s), c, Append(piece, Head(s)))

\* "+" is a space and %XX is the byte XX
RECURSIVE FormDecode(_)
FormDecode(s) ==
    IF s = << >> THEN << >>
    ELSE IF Head(s) = "+" THEN <<" ">> \o FormDecode(Tail(s))
    ELSE IF Head(s) = "%" /\ Len(s) >= 3
         THEN LET hex == <<s[2], s[3]>>
                  c == CASE hex = <<"2", "6">> -> "&"
                         [] hex = <<"3", "D">> -> "="
                         [] hex = <<"2", "B">> -> "+"
                         [] hex = <<"2", "5">> -> "%"
                         [] OTHER -> "?"
              IN  <<c>> \o FormDecode(SubSeq(s, 4, Len(s)))
    ELSE <<Head(s)>> \o FormDecode(Tail(s))

ParsePair(piece) ==
    LET eq == IF \E i \in 1..Len(piece) : piece[i] = "="
              THEN CHOOSE i \in 1..Len(piece) : piece[i] = "=" /\ \A j \in 1..(i - 1) : piece[j] # "="
              ELSE Len(piece) + 1
    IN  [name |-> FormDecode(SubSeq(piece, 1, eq - 1)),
         value |-> FormDecode(SubSeq(piece, eq + 1, Len(piece)))]

ParseQuery(q) ==
    LET pieces == SelectSeq(SplitOn(q, "&", << >>), LAMBDA x : x # << >>)
    IN  [i \in 1..Len(pieces) |-> ParsePair(pieces[i])]

\* the values the statement calls falsy: "", undefined, 0, false
Falsy == {JSString(<< >>), [t |-> "undefined"], JSNumber(0), JSBoolean(FALSE)}

\* a kept value as text
Text(v) ==
    IF v.t = "string" THEN v.s
    ELSE IF v = JSNumber(1) THEN <<"1">>
    ELSE <<"t", "r", "u", "e">>

Kept(f) == SelectSeq(f, LAMBDA e : e.value \notin Falsy)

RECURSIVE Verbatim(_)
Verbatim(entries) ==
    IF entries = << >> THEN << >>
    ELSE entries[1].key \o <<"=">> \o Text(entries[1].value)
         \o (IF Len(entries) > 1 THEN <<"&">> ELSE << >>) \o Verbatim(Tail(entries))

ListRequests == {r \in inflight : r.op \in {"requests", "proposals"}}

\* C8 as stated: the query string of getRequests / getProposals holds exactly
\* the keys whose value is truthy, in entry order, each with its value
\* verbatim.
C8_TruthyEntriesVerbatim ==
    \A r \in ListRequests : r.query = Verbatim(Kept(filters))

\* C8 amended: the query string holds exactly the keys whose value is truthy,
\* in entry order, each with its value as text in form-urlencoded form:
\* reading the query string back gives those keys and values.
C8_TruthyEntriesEncoded ==
    \A r \in ListRequests :
        ParseQuery(r.query) = [i \in 1..Len(Kept(filters)) |->
                                  [name |-> Kept(filters)[i].key, value |-> Text(Kept(filters)[i].value)]]

C8_Witness ==
    /\ Len(filters) = 2
    /\ filters[1].value = JSNumber(0)
    /\ filters[2].value = JSString(<<"a", "&">>)
    /\ \E r \in ListRequests : r.query = <<"t", "a", "g", "=", "a", "%", "2", "6">>

====
